---- MODULE Spec2Model ----
(***************************************************************************)
(* A model of src/news_scraper.py (class NewsScaper): the collection loop  *)
(* of run_scraper, the retention / archive / dedup / save step, and the    *)
(* pure helpers is_valid_source, get_next_archive_number and the sentiment *)
(* thresholds of extract_article_content.                                  *)
(*                                                                         *)
(* Text is modelled as a sequence of tokens (short strings): a file name   *)
(* is <<"news_archive_", "4", ".csv">>, a URL is                           *)
(* <<"https:", "//", "a", ".com", "/x">>.  Dates are day numbers; a        *)
(* datetime is a number of ticks, TicksPerDay ticks to the day, so that a  *)
(* date at midnight can be compared with a cutoff that has a time of day.  *)
(***************************************************************************)
EXTENDS Integers, Sequences, FiniteSets, TLC

VARIABLES
    now,              \* the clock: dt.datetime.now(), in ticks
    current_file,     \* output/news_results.csv: [exists, rows]
    output_dir,       \* the other files of output/: file name -> rows
    pc,               \* position of run_scraper: rest, search, hits
    approved_sources, \* run_scraper local (line 192)
    search_terms,     \* run_scraper local (line 193)
    existing_links,   \* run_scraper local (line 194)
    all_articles,     \* run_scraper local (line 209)
    term_idx,         \* index of the search term of the loop at line 211
    articles_left,    \* items of the current feed not yet visited (line 220)
    existing_df,      \* run_scraper local (lines 270-273), rows of a frame
    cutoff_date,      \* run_scraper local (line 291), in ticks
    outcome,          \* how the last run ended
    runs,             \* number of runs started
    hits,             \* feed items visited in this run
    searches,         \* searches issued in this run
    reads,            \* reads of the current-window file in this run
    writes,           \* writes of the current-window file in this run
    archive_error,    \* the archive to_csv of this run raised
    archived_to,      \* name of the archive file this run wrote, or <<>>
    start_current,    \* current_file when this run started
    start_dir,        \* output_dir when this run started
    tracking,         \* whether seen and prev_seen are recorded
    seen,             \* feed items returned to this run
    prev_seen,        \* feed items returned to the run before
    prev_outcome,     \* how the run before ended
    prev_ended_at,    \* the clock when the run before ended
    ended_at,         \* the clock when the last run ended
    probe,            \* harness of the pure-function specifications
    raised_url,       \* the URL on which urlparse raised in this run, or <<>>
    calls             \* the helpers called for the hit held in probe, in order

vars == <<now, current_file, output_dir, pc, approved_sources, search_terms,
          existing_links, all_articles, term_idx, articles_left, existing_df,
          cutoff_date, outcome, runs, hits, searches, reads, writes,
          archive_error, archived_to, start_current, start_dir, tracking,
          seen, prev_seen, prev_outcome, prev_ended_at, ended_at, probe,
          raised_url, calls>>

----------------------------------------------------------------------------
(* Bounds of the model *)

MaxRuns == 2
MaxHits == 2
MaxScore == 600
MaxRows == 2

\* resolution of the clock: a datetime is a day and a time of day
TicksPerDay == 2

(* Program constants *)

RETENTION_DAYS == 90
MIN_SUMMARY_LEN == 100
NEG_THRESHOLD == -500
POS_THRESHOLD == 500

RetentionTicks == RETENTION_DAYS * TicksPerDay
NoCutoff == 0 - 1

----------------------------------------------------------------------------
(* Text: str.lower, str.strip, str.startswith, str.endswith, str.replace *)

LowerTok(t) ==
    CASE t = "R" -> "r"
      [] t = "/X" -> "/x"
      [] t = ".COM" -> ".com"
      [] OTHER -> t

str_lower(s) == [i \in 1..Len(s) |-> LowerTok(s[i])]

RECURSIVE str_lstrip(_)
str_lstrip(s) ==
    IF s # <<>> /\ Head(s) = " " THEN str_lstrip(Tail(s)) ELSE s

RECURSIVE str_rstrip(_)
str_rstrip(s) ==
    IF s # <<>> /\ s[Len(s)] = " " THEN str_rstrip(SubSeq(s, 1, Len(s) - 1)) ELSE s

str_strip(s) == str_lstrip(str_rstrip(s))

startswith(s, prefix) == s # <<>> /\ s[1] = prefix

endswith(s, suffix) == s # <<>> /\ s[Len(s)] = suffix

str_replace(s, old) == SelectSeq(s, LAMBDA t : t # old)

(* int(text) and str(number) of Python, on digit tokens *)

DigitToks == <<"0", "1", "2", "3", "4", "5", "6", "7", "8", "9">>

IsDigit(t) == \E d \in 1..10 : DigitToks[d] = t

DigitVal(t) == (CHOOSE d \in 1..10 : DigitToks[d] = t) - 1

RECURSIVE DigitsVal(_)
DigitsVal(s) ==
    IF s = <<>> THEN 0
    ELSE 10 * DigitsVal(SubSeq(s, 1, Len(s) - 1)) + DigitVal(s[Len(s)])

AllDigits(s) == s # <<>> /\ \A i \in 1..Len(s) : IsDigit(s[i])

\* int(s) raises ValueError exactly when IntParses(s) is false
IntParses(s) ==
    \/ AllDigits(s)
    \/ s # <<>> /\ Head(s) \in {"-", "+"} /\ AllDigits(Tail(s))

IntValue(s) ==
    IF Head(s) = "-" THEN 0 - DigitsVal(Tail(s))
    ELSE IF Head(s) = "+" THEN DigitsVal(Tail(s))
    ELSE DigitsVal(s)

RECURSIVE NatToStr(_)
NatToStr(n) ==
    IF n < 10 THEN <<DigitToks[n + 1]>>
    ELSE NatToStr(n \div 10) \o <<DigitToks[(n % 10) + 1]>>

IntToStr(n) == IF n < 0 THEN <<"-">> \o NatToStr(0 - n) ELSE NatToStr(n)

SetMax(S) == CHOOSE x \in S : \A y \in S : y <= x

----------------------------------------------------------------------------
(* Tables, frames and CSV files *)

\* pd.to_datetime / read_csv(parse_dates=...): a calendar day becomes the
\* datetime of its midnight
to_datetime(rows) ==
    [i \in 1..Len(rows) |->
        [rows[i] EXCEPT !.published_date = rows[i].published_date * TicksPerDay]]

\* DataFrame.to_csv: a datetime at midnight is written as its calendar day
to_csv(df) ==
    [i \in 1..Len(df) |->
        [df[i] EXCEPT !.published_date = df[i].published_date \div TicksPerDay]]

read_csv(file) == to_datetime(file.rows)

MissingFile == [exists |-> FALSE, rows |-> <<>>]

load_sources(table) ==
    IF table.exists
    THEN {str_strip(str_lower(table.rows[i])) : i \in 1..Len(table.rows)}
    ELSE {}

load_search_terms(table) == IF table.exists THEN table.rows ELSE <<>>

\* line 64 without .str.lower()
get_existing_links_exact(file) ==
    IF file.exists
    THEN {file.rows[i].link : i \in 1..Len(file.rows)}
    ELSE {}

get_existing_links(file) ==
    IF file.exists
    THEN {str_lower(file.rows[i].link) : i \in 1..Len(file.rows)}
    ELSE {}

----------------------------------------------------------------------------
(* search_google_news, decode_url, is_valid_source, extract_article_content *)

\* the article_data built from one <item> of the feed
article_data(item) ==
    [encoded_url |-> item.encoded_url,
     source |-> str_lower(str_strip(item.source)),
     pub_date |-> item.pub_date]

decode_url(result) ==
    IF ~result.raised /\ result.status THEN str_strip(result.decoded_url) ELSE <<>>

IsPathStart(t) == t \in {"/x", "/X", "?q", "#f"}

\* urlparse(url).netloc: what follows "//" up to the path, query or fragment
urlparse_netloc(url) ==
    LET at == IF Len(url) >= 1 /\ url[1] = "//" THEN 1
              ELSE IF Len(url) >= 2 /\ url[2] = "//" THEN 2 ELSE 0
        stops == {i \in (at + 1)..Len(url) : IsPathStart(url[i])}
        last == IF stops = {} THEN Len(url)
                ELSE (CHOOSE i \in stops : \A j \in stops : i <= j) - 1
    IN  IF at = 0 THEN <<>> ELSE SubSeq(url, at + 1, last)

\* urlparse(url) raises ValueError (Invalid IPv6 URL) for an authority that
\* opens a bracket and does not close it
urlparse_raises(url) == \E i \in 1..Len(url) : url[i] = "[x"

valid_extensions == {".com", ".org", ".net", ".edu"}

is_valid_source(source_name, domain_url, approved) ==
    IF source_name \notin approved THEN FALSE
    ELSE LET domain == str_lower(urlparse_netloc(domain_url))
         IN  \E ext \in valid_extensions : endswith(domain, ext)

\* lines 104-108: the name is approved and urlparse raises; nothing in
\* is_valid_source or in run_scraper catches it
is_valid_source_raises(source_name, domain_url, approved) ==
    source_name \in approved /\ urlparse_raises(domain_url)

\* lines 138-143 with < and > in place of <= and >=
sentiment_label_strict(compound_score) ==
    IF compound_score < NEG_THRESHOLD THEN "negative"
    ELSE IF compound_score > POS_THRESHOLD THEN "positive"
    ELSE "neutral"

sentiment_label(compound_score) ==
    IF compound_score <= NEG_THRESHOLD THEN "negative"
    ELSE IF compound_score >= POS_THRESHOLD THEN "positive"
    ELSE "neutral"

\* line 127 with <= in place of <
extract_article_content_above_floor(page) ==
    IF page.raised THEN <<>>
    ELSE IF page.summary <= MIN_SUMMARY_LEN THEN <<>>
    ELSE <<[summary |-> page.summary,
            sentiment |-> sentiment_label(page.score),
            polarity |-> page.score]>>

\* page: what download/parse/nlp and finvader give for a URL; page.raised is
\* an exception in any of them.  A summary is modelled by its length.
extract_article_content(page) ==
    IF page.raised THEN <<>>
    ELSE IF page.summary < MIN_SUMMARY_LEN THEN <<>>
    ELSE <<[summary |-> page.summary,
            sentiment |-> sentiment_label(page.score),
            polarity |-> page.score]>>

\* parser.parse(text).date(), with the bare except of line 242
\* lines 240-243 with a fixed day in place of dt.date.today()
parse_pub_date_epoch(text, today) == IF AllDigits(text) THEN DigitsVal(text) ELSE 0

\* a pubDate text is the number of its day when it is made of digits; None
\* (<<>>) and any other text make parser.parse raise
parse_pub_date(text, today) == IF AllDigits(text) THEN DigitsVal(text) ELSE today

article_record(term_data, article, decoded_url, content, pub_date) ==
    [topic_id |-> term_data.topic_id,
     summary |-> content.summary,
     published_date |-> pub_date,
     link |-> decoded_url,
     source |-> article.source,
     sentiment |-> content.sentiment,
     polarity |-> content.polarity]

----------------------------------------------------------------------------
(* get_next_archive_number, archive_old_data, drop_duplicates *)

ArchivePrefix == "news_archive_"
CsvExt == ".csv"

\* the same without the "+ 1" of line 172
get_next_archive_number_no_increment(listing) ==
    LET archive_files ==
            {f \in listing : startswith(f, ArchivePrefix) /\ endswith(f, CsvExt)}
        stem(f) == str_replace(str_replace(f, ArchivePrefix), CsvExt)
        numbers == {IntValue(stem(f)) : f \in {g \in archive_files : IntParses(stem(g))}}
    IN  IF archive_files = {} THEN 1
        ELSE IF numbers # {} THEN SetMax(numbers) ELSE 1

get_next_archive_number(listing) ==
    LET archive_files ==
            {f \in listing : startswith(f, ArchivePrefix) /\ endswith(f, CsvExt)}
        stem(f) == str_replace(str_replace(f, ArchivePrefix), CsvExt)
        numbers == {IntValue(stem(f)) : f \in {g \in archive_files : IntParses(stem(g))}}
    IN  IF archive_files = {} THEN 1
        ELSE IF numbers # {} THEN SetMax(numbers) + 1 ELSE 1

archive_path(archive_num) == <<ArchivePrefix>> \o IntToStr(archive_num) \o <<CsvExt>>

\* line 176 selecting nothing
old_data_none(df, cutoff) == <<>>

\* line 176 on a frame whose duplicate links have been dropped first
old_data_unique(df, cutoff) ==
    LET idx == SelectSeq([i \in 1..Len(df) |-> i],
                         LAMBDA i : /\ df[i].published_date < cutoff
                                    /\ \A j \in 1..(i - 1) : df[j].link # df[i].link)
    IN  [k \in 1..Len(idx) |-> df[idx[k]]]

\* line 176 with the cutoff a day early
old_data_day_early(df, cutoff) ==
    SelectSeq(df, LAMBDA r : r.published_date < cutoff - TicksPerDay)

old_data(df, cutoff) == SelectSeq(df, LAMBDA r : r.published_date < cutoff)

\* line 185 returning the frame unfiltered
current_data_unfiltered(df, cutoff) == df

\* line 185 with > in place of >=
current_data_strict(df, cutoff) == SelectSeq(df, LAMBDA r : r.published_date > cutoff)

current_data(df, cutoff) == SelectSeq(df, LAMBDA r : r.published_date >= cutoff)

\* line 297 left out
drop_duplicates_skipped(df) == df

\* line 297 with keep='last': the last row of each link stays
drop_duplicates_keep_last(df) ==
    LET idx == SelectSeq([i \in 1..Len(df) |-> i],
                         LAMBDA i : \A j \in (i + 1)..Len(df) : df[j].link # df[i].link)
    IN  [k \in 1..Len(idx) |-> df[idx[k]]]

RECURSIVE DropSeen(_, _)
DropSeen(df, links) ==
    IF df = <<>> THEN <<>>
    ELSE IF Head(df).link \in links THEN DropSeen(Tail(df), links)
    ELSE <<Head(df)>> \o DropSeen(Tail(df), links \cup {Head(df).link})

\* DataFrame.drop_duplicates(subset=['link']): the first row of each link stays
drop_duplicates(df) == DropSeen(df, {})

combined_df(existing, articles) ==
    IF articles # <<>>
    THEN IF existing # <<>> THEN existing \o to_datetime(articles)
         ELSE to_datetime(articles)
    ELSE existing

\* line 290 taking every frame for one that holds rows
frame_empty_never(df) == FALSE

\* DataFrame.empty
frame_empty(df) == df = <<>>

ResultsName == <<"news_results", CsvExt>>

\* os.listdir('output')
listdir(file, dir) == DOMAIN dir \cup (IF file.exists THEN {ResultsName} ELSE {})

\* the directory after path has been written with rows
WriteFile(dir, path, rows) ==
    [f \in DOMAIN dir \cup {path} |-> IF f = path THEN rows ELSE dir[f]]

----------------------------------------------------------------------------
(* The world outside the program: tables, feeds, the decoder, the pages *)

Reuters == <<"r", "euters">>

SourceTables ==
    {MissingFile,
     [exists |-> TRUE, rows |-> <<>>],
     [exists |-> TRUE, rows |-> << <<"R", "euters", " ">> >>]}

TermRow(i) == [topic_id |-> i, search_term |-> IntToStr(i)]

TermTables ==
    {MissingFile,
     [exists |-> TRUE, rows |-> <<>>],
     [exists |-> TRUE, rows |-> <<TermRow(1)>>],
     [exists |-> TRUE, rows |-> <<TermRow(1), TermRow(2)>>]}

EncodedUrls == {"e1", "e2", "e3", "e4"}

\* the article each encoded link stands for
DecodedOf(encoded_url) ==
    CASE encoded_url = "e1" -> <<"https:", "//", "a", ".com", "/x", " ">>
      [] encoded_url = "e2" -> <<"https:", "//", "a", ".com", "/X">>
      [] encoded_url = "e4" -> <<"https:", "//", "[x">>
      [] OTHER -> <<"https:", "//", "b", ".io", "/x">>

\* what new_decoderv1 can do with an encoded link
DecoderResults(encoded_url) ==
    {[raised |-> TRUE, status |-> FALSE, decoded_url |-> <<>>],
     [raised |-> FALSE, status |-> FALSE, decoded_url |-> <<>>],
     [raised |-> FALSE, status |-> TRUE, decoded_url |-> DecodedOf(encoded_url)]}

\* the feed items the search can return: an approved article without a
\* usable pubDate, an approved old article whose link differs from the first
\* in case only, an approved source on a .io host, an unapproved source,
\* an approved source whose link urlparse cannot split
FeedItems ==
    {[encoded_url |-> "e1", source |-> <<" ", "R", "euters">>, pub_date |-> <<>>],
     [encoded_url |-> "e2", source |-> <<" ", "R", "euters">>, pub_date |-> <<"0">>],
     [encoded_url |-> "e3", source |-> <<" ", "R", "euters">>, pub_date |-> <<>>],
     [encoded_url |-> "e1", source |-> <<"blog">>, pub_date |-> <<>>],
     [encoded_url |-> "e4", source |-> <<" ", "R", "euters">>, pub_date |-> <<>>]}

Pages ==
    {[raised |-> TRUE, summary |-> 0, score |-> 0]} \cup
    [raised : {FALSE}, summary : {MIN_SUMMARY_LEN - 1, MIN_SUMMARY_LEN}, score : {0}]

StartNow == RetentionTicks

\* the instants at which a run can start: midnight of day RETENTION_DAYS and
\* later that day, and the same one retention period later
ClockReadings ==
    {StartNow, StartNow + 1, StartNow + RetentionTicks, StartNow + RetentionTicks + 1}

NoProbe == [fn |-> "none"]

----------------------------------------------------------------------------
(* run_scraper *)

InitRun(track) ==
    /\ now = StartNow
    /\ current_file = MissingFile
    /\ output_dir = <<>>
    /\ pc = "rest"
    /\ approved_sources = {}
    /\ search_terms = <<>>
    /\ existing_links = {}
    /\ all_articles = <<>>
    /\ term_idx = 1
    /\ articles_left = 0
    /\ existing_df = <<>>
    /\ cutoff_date = NoCutoff
    /\ outcome = "none"
    /\ runs = 0
    /\ hits = 0
    /\ searches = 0
    /\ reads = 0
    /\ writes = 0
    /\ archive_error = FALSE
    /\ archived_to = <<>>
    /\ start_current = MissingFile
    /\ start_dir = <<>>
    /\ tracking = track
    /\ seen = {}
    /\ prev_seen = {}
    /\ prev_outcome = "none"
    /\ prev_ended_at = StartNow
    /\ ended_at = StartNow
    /\ probe = NoProbe
    /\ raised_url = <<>>
    /\ calls = <<>>

Init == InitRun(FALSE)

\* lines 196-198 left out
config_missing_terms_only(approved, terms) == terms = <<>>

\* lines 196-202: the run ends when a table gave nothing
config_missing(approved, terms) == approved = {} \/ terms = <<>>

\* lines 189-209: load the configuration, leave when a table is empty.
\* clock is what the clock reads when the run starts.
RunStart(source_table, term_table, clock) ==
    /\ pc = "rest"
    /\ runs < MaxRuns
    /\ runs' = runs + 1
    /\ clock >= now
    /\ now' = clock
    /\ approved_sources' = load_sources(source_table)
    /\ search_terms' = load_search_terms(term_table)
    /\ existing_links' = get_existing_links(current_file)
    /\ reads' = IF current_file.exists THEN 1 ELSE 0
    /\ IF config_missing(approved_sources', search_terms')
       THEN /\ pc' = "rest"
            /\ outcome' = "aborted"
            /\ ended_at' = now'
       ELSE /\ pc' = "search"
            /\ outcome' = "running"
            /\ UNCHANGED ended_at
    /\ all_articles' = <<>>
    /\ term_idx' = 1
    /\ articles_left' = 0
    /\ existing_df' = <<>>
    /\ cutoff_date' = NoCutoff
    /\ hits' = 0
    /\ searches' = 0
    /\ writes' = 0
    /\ archive_error' = FALSE
    /\ archived_to' = <<>>
    /\ start_current' = current_file
    /\ start_dir' = output_dir
    /\ prev_seen' = seen
    /\ seen' = {}
    /\ prev_outcome' = IF tracking THEN outcome ELSE prev_outcome
    /\ prev_ended_at' = IF tracking THEN ended_at ELSE prev_ended_at
    /\ raised_url' = <<>>
    /\ UNCHANGED <<current_file, output_dir, tracking, probe, calls>>

\* lines 211-218: search_google_news for the next term; the feed has n items,
\* none when the request raised
SearchTerm(raised, n) ==
    /\ pc = "search"
    /\ term_idx <= Len(search_terms)
    /\ searches' = searches + 1
    /\ LET count == IF raised THEN 0 ELSE n
       IN  /\ articles_left' = count
           /\ IF count = 0
              THEN /\ term_idx' = term_idx + 1
                   /\ pc' = "search"
              ELSE /\ UNCHANGED term_idx
                   /\ pc' = "hits"
    /\ UNCHANGED <<now, current_file, output_dir, approved_sources, search_terms,
                   existing_links, all_articles, existing_df, cutoff_date, outcome,
                   runs, hits, reads, writes, archive_error, archived_to,
                   start_current, start_dir, seen, prev_seen, ended_at, tracking, prev_outcome,
                   prev_ended_at, probe, raised_url, calls>>

\* what lines 220-260 add to all_articles for one item of the feed
Collected(item, result, page) ==
    LET article == article_data(item)
        decoded_url == decode_url(result)
        content == extract_article_content(page)
        pub_date == parse_pub_date(article.pub_date, now \div TicksPerDay)
    IN  IF decoded_url = <<>> THEN <<>>
        ELSE IF str_lower(decoded_url) \in existing_links THEN <<>>
        ELSE IF ~is_valid_source(article.source, decoded_url, approved_sources)
        THEN <<>>
        ELSE IF content = <<>> THEN <<>>
        ELSE <<article_record(search_terms[term_idx], article, decoded_url,
                              content[1], pub_date)>>

\* the helpers lines 222-241 call for one item of the feed, in order
calls_made(item, result, page) ==
    LET article == article_data(item)
        decoded_url == decode_url(result)
        content == extract_article_content(page)
    IN  <<"decode_url">> \o
        (IF decoded_url = <<>> \/ str_lower(decoded_url) \in existing_links
         THEN <<>>
         ELSE <<"is_valid_source">> \o
              (IF \/ is_valid_source_raises(article.source, decoded_url, approved_sources)
                  \/ ~is_valid_source(article.source, decoded_url, approved_sources)
               THEN <<>>
               ELSE <<"extract_article_content">> \o
                    (IF content = <<>> THEN <<>> ELSE <<"parser.parse">>)))

\* lines 222-231 reach urlparse with a link it cannot split
HitRaises(item, result) ==
    LET article == article_data(item)
        decoded_url == decode_url(result)
    IN  /\ decoded_url # <<>>
        /\ str_lower(decoded_url) \notin existing_links
        /\ is_valid_source_raises(article.source, decoded_url, approved_sources)

\* lines 220-264 with the link of a collected record added to existing_links
ProcessHit_remembering(item, result, page) ==
    /\ pc = "hits"
    /\ articles_left > 0
    /\ ~HitRaises(item, result)
    /\ all_articles' = all_articles \o Collected(item, result, page)
    /\ existing_links' =
          existing_links \cup
          {str_lower(Collected(item, result, page)[i].link) :
              i \in 1..Len(Collected(item, result, page))}
    /\ seen' = IF tracking THEN seen \cup {item} ELSE seen
    /\ hits' = hits + 1
    /\ calls' = IF probe = NoProbe THEN calls ELSE calls_made(item, result, page)
    /\ articles_left' = articles_left - 1
    /\ IF articles_left' = 0
       THEN /\ term_idx' = term_idx + 1
            /\ pc' = "search"
       ELSE UNCHANGED <<term_idx, pc>>
    /\ UNCHANGED <<now, current_file, output_dir, approved_sources, search_terms,
                   existing_df, cutoff_date, outcome, runs,
                   searches, reads, writes, archive_error, archived_to,
                   start_current, start_dir, prev_seen, ended_at, tracking, prev_outcome,
                   prev_ended_at, probe, raised_url>>

\* lines 220-264 with the collected records saved after every pass
ProcessHit_saving(item, result, page) ==
    /\ pc = "hits"
    /\ articles_left > 0
    /\ ~HitRaises(item, result)
    /\ all_articles' = all_articles \o Collected(item, result, page)
    /\ current_file' = [exists |-> TRUE,
                        rows |-> current_file.rows \o Collected(item, result, page)]
    /\ writes' = writes + 1
    /\ seen' = IF tracking THEN seen \cup {item} ELSE seen
    /\ hits' = hits + 1
    /\ calls' = IF probe = NoProbe THEN calls ELSE calls_made(item, result, page)
    /\ articles_left' = articles_left - 1
    /\ IF articles_left' = 0
       THEN /\ term_idx' = term_idx + 1
            /\ pc' = "search"
       ELSE UNCHANGED <<term_idx, pc>>
    /\ UNCHANGED <<now, output_dir, approved_sources, search_terms,
                   existing_links, existing_df, cutoff_date, outcome, runs,
                   searches, reads, archive_error, archived_to,
                   start_current, start_dir, prev_seen, ended_at, tracking, prev_outcome,
                   prev_ended_at, probe, raised_url>>

\* lines 220-264: one pass of the loop over the feed of the current term
ProcessHit(item, result, page) ==
    /\ pc = "hits"
    /\ articles_left > 0
    /\ ~HitRaises(item, result)
    /\ all_articles' = all_articles \o Collected(item, result, page)
    /\ seen' = IF tracking THEN seen \cup {item} ELSE seen
    /\ hits' = hits + 1
    /\ calls' = IF probe = NoProbe THEN calls ELSE calls_made(item, result, page)
    /\ articles_left' = articles_left - 1
    /\ IF articles_left' = 0
       THEN /\ term_idx' = term_idx + 1
            /\ pc' = "search"
       ELSE UNCHANGED <<term_idx, pc>>
    /\ UNCHANGED <<now, current_file, output_dir, approved_sources, search_terms,
                   existing_links, existing_df, cutoff_date, outcome, runs,
                   searches, reads, writes, archive_error, archived_to,
                   start_current, start_dir, prev_seen, ended_at, tracking, prev_outcome,
                   prev_ended_at, probe, raised_url>>

\* lines 220-231 when urlparse raises at line 108: the ValueError leaves
\* is_valid_source and run_scraper, and the run ends without the retention step
ProcessHitRaises(item, result) ==
    /\ pc = "hits"
    /\ articles_left > 0
    /\ HitRaises(item, result)
    /\ seen' = IF tracking THEN seen \cup {item} ELSE seen
    /\ hits' = hits + 1
    /\ calls' = IF probe = NoProbe THEN calls ELSE <<"decode_url", "is_valid_source">>
    /\ raised_url' = decode_url(result)
    /\ outcome' = "raised"
    /\ pc' = "rest"
    /\ ended_at' = now
    /\ UNCHANGED <<now, current_file, output_dir, approved_sources, search_terms,
                   existing_links, all_articles, term_idx, articles_left,
                   existing_df, cutoff_date, runs, searches, reads, writes,
                   archive_error, archived_to, start_current, start_dir,
                   prev_seen, tracking, prev_outcome, prev_ended_at, probe>>

\* lines 266-306 when every to_csv succeeds
Retain ==
    /\ pc = "search"
    /\ term_idx > Len(search_terms)
    /\ LET existing == IF current_file.exists THEN read_csv(current_file) ELSE <<>>
           combined == combined_df(existing, all_articles)
           cutoff == now - RetentionTicks
           old == old_data(combined, cutoff)
           path == archive_path(get_next_archive_number(listdir(current_file, output_dir)))
           current_df == drop_duplicates(current_data(combined, cutoff))
       IN  /\ existing_df' = existing
           /\ reads' = reads + (IF current_file.exists THEN 1 ELSE 0)
           /\ IF frame_empty(combined)
              THEN /\ outcome' = "empty"
                   /\ UNCHANGED <<current_file, output_dir, cutoff_date, writes,
                                  archived_to>>
              ELSE /\ outcome' = "saved"
                   /\ cutoff_date' = cutoff
                   /\ IF ~frame_empty(old)
                      THEN /\ output_dir' = WriteFile(output_dir, path, to_csv(old))
                           /\ archived_to' = path
                      ELSE UNCHANGED <<output_dir, archived_to>>
                   /\ current_file' = [exists |-> TRUE, rows |-> to_csv(current_df)]
                   /\ writes' = writes + 1
    /\ pc' = "rest"
    /\ ended_at' = now
    /\ UNCHANGED <<now, approved_sources, search_terms, existing_links,
                   all_articles, term_idx, articles_left, runs, hits, searches,
                   archive_error, start_current, start_dir, seen, prev_seen, tracking, prev_outcome,
                   prev_ended_at, probe, raised_url, calls>>

\* lines 266-294 when the to_csv of line 181 raises: nothing catches it, and
\* run_scraper ends there.  The archive file is not there (created = FALSE)
\* or holds the first k rows.
RetainArchiveFails(created, k) ==
    /\ pc = "search"
    /\ term_idx > Len(search_terms)
    /\ LET existing == IF current_file.exists THEN read_csv(current_file) ELSE <<>>
           combined == combined_df(existing, all_articles)
           cutoff == now - RetentionTicks
           old == old_data(combined, cutoff)
           path == archive_path(get_next_archive_number(listdir(current_file, output_dir)))
       IN  /\ ~frame_empty(combined)
           /\ ~frame_empty(old)
           /\ k < Len(old)
           /\ existing_df' = existing
           /\ reads' = reads + (IF current_file.exists THEN 1 ELSE 0)
           /\ cutoff_date' = cutoff
           /\ IF created
              THEN /\ output_dir' = WriteFile(output_dir, path, to_csv(SubSeq(old, 1, k)))
                   /\ archived_to' = path
              ELSE UNCHANGED <<output_dir, archived_to>>
    /\ archive_error' = TRUE
    /\ outcome' = "crashed"
    /\ pc' = "rest"
    /\ ended_at' = now
    /\ UNCHANGED <<now, current_file, approved_sources, search_terms,
                   existing_links, all_articles, term_idx, articles_left, runs,
                   hits, searches, writes, start_current, start_dir, seen,
                   prev_seen, tracking, prev_outcome,
                   prev_ended_at, probe, raised_url, calls>>

Next ==
    \/ \E source_table \in SourceTables, term_table \in TermTables :
          \E clock \in ClockReadings : RunStart(source_table, term_table, clock)
    \/ \E raised \in BOOLEAN, n \in 0..(MaxHits - hits) : SearchTerm(raised, n)
    \/ \E item \in FeedItems, page \in Pages :
          \E result \in DecoderResults(item.encoded_url) : ProcessHit(item, result, page)
    \/ \E item \in FeedItems :
          \E result \in DecoderResults(item.encoded_url) : ProcessHitRaises(item, result)
    \/ Retain
    \/ \E created \in BOOLEAN, k \in 0..(2 * MaxHits) : RetainArchiveFails(created, k)

Spec == Init /\ [][Next]_vars

\* the same runs, with the feeds of each run and of the run before recorded
InitTwice == InitRun(TRUE)

\* the feed items whose link urlparse can split
SplitItems == {item \in FeedItems : ~urlparse_raises(DecodedOf(item.encoded_url))}

\* two runs, one after the other, whose two tables are there and not empty
\* and whose links urlparse can split
NextTwice ==
    \/ /\ runs < 2
       /\ \E source_table \in {t \in SourceTables : load_sources(t) # {}},
             term_table \in {t \in TermTables : load_search_terms(t) # <<>>} :
             \E clock \in ClockReadings : RunStart(source_table, term_table, clock)
    \/ \E raised \in BOOLEAN, n \in 0..(MaxHits - hits) : SearchTerm(raised, n)
    \/ \E item \in SplitItems, page \in Pages :
          \E result \in DecoderResults(item.encoded_url) : ProcessHit(item, result, page)
    \/ Retain
    \/ \E created \in BOOLEAN, k \in 0..(2 * MaxHits) : RetainArchiveFails(created, k)

SpecTwice == InitTwice /\ [][NextTwice]_vars

----------------------------------------------------------------------------
(* Properties of run_scraper *)

RunEnded == pc = "rest" /\ runs > 0

Midnight(day) == day * TicksPerDay

NotOlder(rows, cutoff) ==
    \A i \in 1..Len(rows) : Midnight(rows[i].published_date) >= cutoff

AllOlder(rows, cutoff) ==
    \A i \in 1..Len(rows) : Midnight(rows[i].published_date) < cutoff

\* C1, as stated: after any run, however it ended, every record of the
\* current-window file is not older than that run's cutoff (its clock less 90
\* days), and every record the run wrote to an archive file is older.
C1_AfterAnyRun ==
    RunEnded =>
        /\ NotOlder(current_file.rows, ended_at - RetentionTicks)
        /\ archived_to # <<>> =>
               AllOlder(output_dir[archived_to], ended_at - RetentionTicks)

\* C1, amended: after a run that saved the current-window file, every record
\* of that file is not older than the run's cutoff; and every record a run
\* wrote to an archive file is older than that run's cutoff.
C1_RetentionPartition ==
    RunEnded =>
        /\ outcome = "saved" => NotOlder(current_file.rows, cutoff_date)
        /\ archived_to # <<>> => AllOlder(output_dir[archived_to], cutoff_date)

C1_Witness ==
    /\ RunEnded
    /\ outcome = "saved"
    /\ current_file.rows # <<>>
    /\ archived_to # <<>>
    /\ output_dir[archived_to] # <<>>

NoDuplicateLinks(rows) ==
    \A i, j \in 1..Len(rows) : rows[i].link = rows[j].link => i = j

\* C2: once a run has completed, no link value is in more than one record of
\* the current-window file.
C2_NoDuplicateLinks == pc = "rest" => NoDuplicateLinks(current_file.rows)

\* two collected records of one link were both in the merged current set
C2_Witness ==
    /\ RunEnded
    /\ outcome = "saved"
    /\ \E i, j \in 1..Len(all_articles) :
          /\ i < j
          /\ all_articles[i].link = all_articles[j].link
          /\ Midnight(all_articles[i].published_date) >= cutoff_date
          /\ Midnight(all_articles[j].published_date) >= cutoff_date
          /\ \E k \in 1..Len(current_file.rows) :
                current_file.rows[k].link = all_articles[i].link

\* C5, as stated: when the archive write of a run failed, the run still
\* saved the deduplicated current set as the current-window file.
C5_ArchiveFailureStillSaves ==
    (RunEnded /\ archive_error) =>
        /\ writes = 1
        /\ current_file =
              [exists |-> TRUE,
               rows |-> to_csv(drop_duplicates(current_data(
                            combined_df(existing_df, all_articles), cutoff_date)))]

\* C6: a run whose approved-sources table or search-terms table gave nothing
\* ends at once: no search, no article, no write, every file as it was.
C6_EmptyConfigAborts ==
    (runs > 0 /\ (approved_sources = {} \/ search_terms = <<>>)) =>
        /\ pc = "rest"
        /\ outcome = "aborted"
        /\ searches = 0
        /\ hits = 0
        /\ all_articles = <<>>
        /\ writes = 0
        /\ current_file = start_current
        /\ output_dir = start_dir

\* a run found no approved source although it had search terms and a
\* current-window file to lose
C6_Witness ==
    /\ outcome = "aborted"
    /\ approved_sources = {}
    /\ search_terms # <<>>
    /\ current_file.exists
    /\ current_file.rows # <<>>

\* C7: no step of any run changes or removes an archive file that exists.
C7_ArchivesNeverRewritten ==
    [][\A f \in DOMAIN output_dir :
          f \in DOMAIN output_dir' /\ output_dir'[f] = output_dir[f]]_vars

\* a second archive file was written while a first one existed
C7_Witness == Cardinality(DOMAIN output_dir) >= 2

----------------------------------------------------------------------------
(* Two runs in a row (SpecTwice) *)

Completed(o) == o \in {"saved", "empty"}

\* C4, as stated: when a second run follows a first at once (the clock has not
\* moved, both runs went through) and its feeds return no item that the
\* feeds of the first did not return, the second run leaves the
\* current-window file as the first left it and creates no archive file.
C4_SecondRunChangesNothing ==
    (/\ RunEnded
     /\ runs = 2
     /\ Completed(prev_outcome)
     /\ Completed(outcome)
     /\ ended_at = prev_ended_at
     /\ seen \subseteq prev_seen) =>
        /\ current_file = start_current
        /\ DOMAIN output_dir = DOMAIN start_dir

\* C4, amended: a second run that collects no record, and whose cutoff no
\* record of the current-window file is older than, leaves the
\* current-window file and the archive files as they were.
C4_NothingCollectedChangesNothing ==
    (/\ RunEnded
     /\ runs = 2
     /\ all_articles = <<>>
     /\ NotOlder(start_current.rows, ended_at - RetentionTicks)) =>
        /\ current_file = start_current
        /\ output_dir = start_dir

\* the second run was returned items, skipped them all, and saved again a
\* current window that holds records
C4_Witness ==
    /\ RunEnded
    /\ runs = 2
    /\ Completed(prev_outcome)
    /\ outcome = "saved"
    /\ seen # {}
    /\ seen \subseteq prev_seen
    /\ all_articles = <<>>
    /\ start_current.rows # <<>>
    /\ current_file = start_current

----------------------------------------------------------------------------
(* The retention step on its own (SpecMerge): lines 266-306 applied to any   *)
(* current-window file without duplicate links and any collected list, as    *)
(* when the file was replaced after line 194 had read its links.             *)

SeqsUpTo(S, n) == UNION {[1..k -> S] : k \in 0..n}

MergeLinks == {str_strip(DecodedOf("e1")), DecodedOf("e2")}

MergeRecord(topic, link, day) ==
    [topic_id |-> topic,
     summary |-> MIN_SUMMARY_LEN,
     published_date |-> day,
     link |-> link,
     source |-> Reuters,
     sentiment |-> "neutral",
     polarity |-> 0]

\* records of topic 1 in the file, of topic 2 in the collected list
MergeRecords(topic) ==
    {MergeRecord(topic, link, day) : link \in MergeLinks, day \in {0, RETENTION_DAYS}}

InitMerge ==
    /\ now \in ClockReadings
    /\ current_file \in
          {MissingFile} \cup
          {[exists |-> TRUE, rows |-> rows] :
              rows \in {r \in SeqsUpTo(MergeRecords(1), MaxRows) :
                           \A i, j \in 1..Len(r) : r[i].link = r[j].link => i = j}}
    /\ all_articles \in SeqsUpTo(MergeRecords(2), MaxRows)
    /\ output_dir = <<>>
    /\ pc = "search"
    /\ approved_sources = {Reuters}
    /\ search_terms = <<TermRow(1), TermRow(2)>>
    /\ existing_links = {}
    /\ term_idx = 3
    /\ articles_left = 0
    /\ existing_df = <<>>
    /\ cutoff_date = NoCutoff
    /\ outcome = "running"
    /\ runs = 1
    /\ hits = Len(all_articles)
    /\ searches = 2
    /\ reads = 0
    /\ writes = 0
    /\ archive_error = FALSE
    /\ archived_to = <<>>
    /\ start_current = current_file
    /\ start_dir = <<>>
    /\ tracking = FALSE
    /\ seen = {}
    /\ prev_seen = {}
    /\ prev_outcome = "none"
    /\ prev_ended_at = StartNow
    /\ ended_at = StartNow
    /\ probe = NoProbe
    /\ raised_url = <<>>
    /\ calls = <<>>

NextMerge ==
    \/ Retain
    \/ \E created \in BOOLEAN, k \in 0..(2 * MaxRows) : RetainArchiveFails(created, k)

SpecMerge == InitMerge /\ [][NextMerge]_vars

Kept(r) == Midnight(r.published_date) >= cutoff_date

\* C3: of the records of one link that the merged current set holds (rows of
\* the existing file and collected records that are not older than the
\* cutoff), exactly one is in the file the run saved: the existing row when
\* there is one, and otherwise the record collected first.
C3_ExistingRecordSurvives ==
    (RunEnded /\ outcome = "saved") =>
        LET old_rows == start_current.rows
            saved == current_file.rows
            old_at(l) == {i \in 1..Len(old_rows) : old_rows[i].link = l /\ Kept(old_rows[i])}
            new_at(l) == {i \in 1..Len(all_articles) :
                             all_articles[i].link = l /\ Kept(all_articles[i])}
            links == {old_rows[i].link : i \in {k \in 1..Len(old_rows) : Kept(old_rows[k])}}
                     \cup {all_articles[i].link :
                              i \in {k \in 1..Len(all_articles) : Kept(all_articles[k])}}
        IN  \A l \in links :
               /\ Cardinality({k \in 1..Len(saved) : saved[k].link = l}) = 1
               /\ \A k \in 1..Len(saved) :
                     saved[k].link = l =>
                        IF old_at(l) # {}
                        THEN \E i \in old_at(l) : saved[k] = old_rows[i]
                        ELSE saved[k] = all_articles[CHOOSE i \in new_at(l) :
                                                        \A j \in new_at(l) : i <= j]

\* a row of the existing file and a different collected record of the same
\* link were merged, and the saved file holds the existing row
C3_Witness ==
    /\ RunEnded
    /\ outcome = "saved"
    /\ \E i \in 1..Len(start_current.rows), j \in 1..Len(all_articles) :
          /\ start_current.rows[i].link = all_articles[j].link
          /\ start_current.rows[i] # all_articles[j]
          /\ Kept(start_current.rows[i])
          /\ Kept(all_articles[j])
          /\ \E k \in 1..Len(current_file.rows) :
                current_file.rows[k] = start_current.rows[i]

----------------------------------------------------------------------------
(* The helpers on their own: each specification draws the arguments of one   *)
(* helper, leaves the scraper at rest, and applies the helper once.          *)

AtRest ==
    /\ now = StartNow
    /\ current_file = MissingFile
    /\ output_dir = <<>>
    /\ pc = "rest"
    /\ approved_sources = {}
    /\ search_terms = <<>>
    /\ existing_links = {}
    /\ all_articles = <<>>
    /\ term_idx = 1
    /\ articles_left = 0
    /\ existing_df = <<>>
    /\ cutoff_date = NoCutoff
    /\ outcome = "none"
    /\ runs = 0
    /\ hits = 0
    /\ searches = 0
    /\ reads = 0
    /\ writes = 0
    /\ archive_error = FALSE
    /\ archived_to = <<>>
    /\ start_current = MissingFile
    /\ start_dir = <<>>
    /\ tracking = FALSE
    /\ seen = {}
    /\ prev_seen = {}
    /\ prev_outcome = "none"
    /\ prev_ended_at = StartNow
    /\ ended_at = StartNow
    /\ raised_url = <<>>
    /\ calls = <<>>

rest_vars ==
    <<now, current_file, output_dir, pc, approved_sources, search_terms,
      existing_links, all_articles, term_idx, articles_left, existing_df,
      cutoff_date, outcome, runs, hits, searches, reads, writes, archive_error,
      archived_to, start_current, start_dir, tracking, seen, prev_seen,
      prev_outcome, prev_ended_at, ended_at, raised_url, calls>>

\* the names os.listdir('output') can hold
OutputNames ==
    {<<ArchivePrefix, "1", CsvExt>>,
     <<ArchivePrefix, "2", CsvExt>>,
     <<ArchivePrefix, "4", CsvExt>>,
     <<ArchivePrefix, "1", "0", CsvExt>>,
     <<ArchivePrefix, "x", CsvExt>>,
     <<ArchivePrefix, "7", ".txt">>,
     <<ArchivePrefix, "4", CsvExt, CsvExt>>,
     ResultsName}

InitArchNum ==
    /\ AtRest
    /\ probe \in [fn : {"listdir"}, listing : SUBSET OutputNames]

CallGetNextArchiveNumber ==
    /\ probe.fn = "listdir"
    /\ probe' = [fn |-> "get_next_archive_number",
                 listing |-> probe.listing,
                 result |-> get_next_archive_number(probe.listing)]
    /\ UNCHANGED rest_vars

NextArchNum == CallGetNextArchiveNumber

SpecArchNum == InitArchNum /\ [][NextArchNum]_vars

\* the suffix of an archive file: what stands between the prefix and the
\* .csv extension of its name
ArchiveSuffix(f) == SubSeq(f, 2, Len(f) - 1)

IsArchiveName(f) == Len(f) >= 2 /\ f[1] = ArchivePrefix /\ f[Len(f)] = CsvExt

NumericSuffixes(listing) ==
    {IntValue(ArchiveSuffix(f)) :
        f \in {g \in listing : IsArchiveName(g) /\ IntParses(ArchiveSuffix(g))}}

\* C8: get_next_archive_number returns 1 when no archive file has a numeric
\* suffix, and otherwise one more than the largest numeric suffix, whatever
\* the gaps; files whose suffix is not a number are ignored.
C8_NextArchiveNumber ==
    probe.fn = "get_next_archive_number" =>
        probe.result = IF NumericSuffixes(probe.listing) = {} THEN 1
                       ELSE SetMax(NumericSuffixes(probe.listing)) + 1

\* C8 on directories whose archive files are all named news_archive_<X>.csv
\* with no further .csv inside X: the number after a gap is max + 1.
C8_GapTolerant ==
    (/\ probe.fn = "get_next_archive_number"
     /\ \A f \in probe.listing : CsvExt \notin {f[i] : i \in 1..(Len(f) - 1)})
    => probe.result = IF NumericSuffixes(probe.listing) = {} THEN 1
                      ELSE SetMax(NumericSuffixes(probe.listing)) + 1

\* files 1, 2 and 4 give 5
C8_GapWitness ==
    /\ probe.fn = "get_next_archive_number"
    /\ probe.listing = {<<ArchivePrefix, "1", CsvExt>>,
                        <<ArchivePrefix, "2", CsvExt>>,
                        <<ArchivePrefix, "4", CsvExt>>}
    /\ probe.result = 5

\* the directory holds one file, news_archive_4.csv.csv, and the call gave 5
C8_Witness ==
    /\ probe.fn = "get_next_archive_number"
    /\ probe.listing = {<<ArchivePrefix, "4", CsvExt, CsvExt>>}
    /\ probe.result = 5

----------------------------------------------------------------------------
(* is_valid_source as run_scraper calls it: the source name comes out of     *)
(* search_google_news (line 81), the approved set out of load_sources.       *)

SourceNames == {<<" ", "R", "euters">>, <<"r", "euters">>, <<"blog">>}

DecodedUrls ==
    {<<"https:", "//", "a", ".com", "/x">>,
     <<"https:", "//", "a", ".COM", "/X">>,
     <<"https:", "//", "a", ".com", ":8080", "/x">>,
     <<"https:", "//", "a", ".org">>,
     <<"https:", "//", "a", ".net", "?q">>,
     <<"https:", "//", "a", ".edu", "#f">>,
     <<"https:", "//", "b", ".io", "/x">>,
     <<"a", ".com", "/x">>}

InitValid ==
    /\ AtRest
    /\ probe \in [fn : {"article"},
                  item : [encoded_url : {"e1"}, source : SourceNames, pub_date : {<<>>}],
                  decoded_url : DecodedUrls,
                  table : SourceTables]

CallIsValidSource ==
    /\ probe.fn = "article"
    /\ probe' = [fn |-> "is_valid_source",
                 item |-> probe.item,
                 decoded_url |-> probe.decoded_url,
                 table |-> probe.table,
                 result |-> is_valid_source(article_data(probe.item).source,
                                            probe.decoded_url,
                                            load_sources(probe.table))]
    /\ UNCHANGED rest_vars

NextValid == CallIsValidSource

SpecValid == InitValid /\ [][NextValid]_vars

\* the host of a URL: its authority without the port
UrlHost(url) == SelectSeq(str_lower(urlparse_netloc(url)), LAMBDA t : t # ":8080")

SourceApproved(p) == str_strip(str_lower(p.item.source)) \in load_sources(p.table)

HostAllowed(p) ==
    \E ext \in {".com", ".org", ".net", ".edu"} :
        UrlHost(p.decoded_url) # <<>> /\
        UrlHost(p.decoded_url)[Len(UrlHost(p.decoded_url))] = ext

\* C9: is_valid_source returns true exactly when the lower-cased, trimmed
\* source name is a member of the approved sources and the host of the URL
\* ends with one of .com, .org, .net, .edu.
C9_ValidExactlyWhenBoth ==
    probe.fn = "is_valid_source" =>
        (probe.result <=> (SourceApproved(probe) /\ HostAllowed(probe)))

\* C9 for URLs that name no port: both conditions, and only they, decide.
C9_ValidWithoutPort ==
    (probe.fn = "is_valid_source" /\ ":8080" \notin {probe.decoded_url[i] :
                                                     i \in 1..Len(probe.decoded_url)})
    => (probe.result <=> (SourceApproved(probe) /\ HostAllowed(probe)))

\* an approved source on a .com host that names a port was refused
C9_Witness ==
    /\ probe.fn = "is_valid_source"
    /\ SourceApproved(probe)
    /\ probe.decoded_url = <<"https:", "//", "a", ".com", ":8080", "/x">>
    /\ ~probe.result

----------------------------------------------------------------------------
(* The sentiment label of extract_article_content, lines 138-143.  Scores    *)
(* are compound scores in units of 0.0001, the precision finvader gives.     *)

InitClassify ==
    /\ AtRest
    /\ probe \in [fn : {"page"},
                  page : [raised : {FALSE},
                          summary : {MIN_SUMMARY_LEN},
                          score : (0 - MaxScore)..MaxScore]]

CallExtractArticleContent ==
    /\ probe.fn = "page"
    /\ probe' = [fn |-> "extract_article_content",
                 page |-> probe.page,
                 result |-> extract_article_content(probe.page)]
    /\ UNCHANGED rest_vars

NextClassify == CallExtractArticleContent

SpecClassify == InitClassify /\ [][NextClassify]_vars

\* C10: a score of -0.05 or less is labelled negative, a score of 0.05 or
\* more positive, every score strictly between them neutral; each score has
\* exactly one label.
C10_SentimentThresholds ==
    probe.fn = "extract_article_content" =>
        /\ Len(probe.result) = 1
        /\ LET score == probe.page.score
               label == probe.result[1].sentiment
           IN  /\ label \in {"negative", "neutral", "positive"}
               /\ label = "negative" <=> score <= -500
               /\ label = "positive" <=> score >= 500
               /\ label = "neutral" <=> (-500 < score /\ score < 500)

\* a score on a boundary was labelled, and not as neutral
C10_Witness ==
    /\ probe.fn = "extract_article_content"
    /\ probe.page.score \in {-500, 500}
    /\ probe.result # <<>>
    /\ probe.result[1].sentiment # "neutral"

----------------------------------------------------------------------------
(* One pass of the loop of line 220 on its own (SpecHit): run_scraper stands *)
(* at line 220 with one item left in the feed of its one search term, and    *)
(* the item, what the decoder gives for it and what the page gives are drawn *)
(* and kept in probe.                                                        *)

\* the current-window files the run can have started from: none, one that
\* holds the link of "e1", one that holds the link of "e2"
HitFiles ==
    {MissingFile} \cup
    {[exists |-> TRUE, rows |-> <<MergeRecord(1, link, RETENTION_DAYS)>>] :
        link \in MergeLinks}

\* the items of the feed, and the first of them with a pubDate that is no date
HitItems ==
    FeedItems \cup
    {[encoded_url |-> "e1", source |-> <<" ", "R", "euters">>, pub_date |-> <<"soon">>]}

HitInputs ==
    {[fn |-> "hit", item |-> item, result |-> result, page |-> page] :
        item \in HitItems,
        result \in UNION {DecoderResults(e) : e \in EncodedUrls},
        page \in Pages}

InitHit ==
    /\ now \in ClockReadings
    /\ current_file \in HitFiles
    /\ output_dir = <<>>
    /\ pc = "hits"
    /\ approved_sources = {Reuters}
    /\ search_terms = <<TermRow(1)>>
    /\ existing_links = get_existing_links(current_file)
    /\ all_articles = <<>>
    /\ term_idx = 1
    /\ articles_left = 1
    /\ existing_df = <<>>
    /\ cutoff_date = NoCutoff
    /\ outcome = "running"
    /\ runs = 1
    /\ hits = 0
    /\ searches = 1
    /\ reads = IF current_file.exists THEN 1 ELSE 0
    /\ writes = 0
    /\ archive_error = FALSE
    /\ archived_to = <<>>
    /\ start_current = current_file
    /\ start_dir = <<>>
    /\ tracking = FALSE
    /\ seen = {}
    /\ prev_seen = {}
    /\ prev_outcome = "none"
    /\ prev_ended_at = StartNow
    /\ ended_at = StartNow
    /\ probe \in {p \in HitInputs : p.result \in DecoderResults(p.item.encoded_url)}
    /\ raised_url = <<>>
    /\ calls = <<>>

NextHit ==
    \/ ProcessHit(probe.item, probe.result, probe.page)
    \/ ProcessHitRaises(probe.item, probe.result)

SpecHit == InitHit /\ [][NextHit]_vars

\* the hit has been through the loop body
HitDone == probe.fn = "hit" /\ hits = 1

PassesDecode(p) == decode_url(p.result) # <<>>

PassesKnownLinks(p) ==
    PassesDecode(p) /\ str_lower(decode_url(p.result)) \notin get_existing_links(start_current)

PassesSource(p) ==
    /\ PassesDecode(p)
    /\ ~urlparse_raises(decode_url(p.result))
    /\ is_valid_source(str_lower(str_strip(p.item.source)), decode_url(p.result),
                       approved_sources)

\* C11: a hit whose summary has fewer than 100 characters becomes no record,
\* a hit whose summary has exactly 100 characters and that passes every
\* other check becomes one, and every collected record has a summary of at
\* least 100 characters.
C11_SummaryFloor ==
    HitDone =>
        /\ \A i \in 1..Len(all_articles) : all_articles[i].summary >= 100
        /\ (~probe.page.raised /\ probe.page.summary < 100) => all_articles = <<>>
        /\ (/\ ~probe.page.raised
            /\ probe.page.summary = 100
            /\ PassesKnownLinks(probe)
            /\ PassesSource(probe))
           => (Len(all_articles) = 1 /\ all_articles[1].summary = 100)

\* a hit with a summary of exactly 100 characters became a record
C11_Witness ==
    /\ HitDone
    /\ probe.page.summary = 100
    /\ Len(all_articles) = 1
    /\ all_articles[1].summary = 100

\* C11 over whole runs: no record of all_articles has a summary under 100
C11_CollectedSummaries ==
    \A i \in 1..Len(all_articles) : all_articles[i].summary >= 100

\* C12: a failure at a per-article step only omits that article; the run
\* goes on and, once past the checks of lines 196-202, ends in the retention
\* step having saved what there was to save (archive write failures aside).
C12_FailuresOnlySkip ==
    (RunEnded /\ outcome # "aborted" /\ ~archive_error) =>
        (outcome \in {"saved", "empty"} /\ raised_url = <<>>)

\* the run ended at line 231, on a link urlparse could not split, and wrote
\* nothing
C12_Witness ==
    /\ RunEnded
    /\ outcome = "raised"
    /\ raised_url = <<"https:", "//", "[x">>
    /\ writes = 0
    /\ current_file = start_current

\* C12 for the failures the code catches (the decoder raising or giving no
\* status, a source that is not valid, the page raising or being short): the
\* hit adds nothing and the loop goes on to the next term.
C12_CaughtFailuresSkip ==
    (HitDone /\ ~urlparse_raises(DecodedOf(probe.item.encoded_url))) =>
        /\ outcome = "running"
        /\ pc = "search"
        /\ term_idx = 2
        /\ (~PassesDecode(probe) \/ ~PassesSource(probe) \/ probe.page.raised)
               => all_articles = <<>>

----------------------------------------------------------------------------
(* Properties of whole runs, continued *)

InRows(r, rows) == \E k \in 1..Len(rows) : rows[k] = r

\* C13: a record that is in the current-window file when a run starts is,
\* when that run has ended, either still in the current-window file with
\* every field as it was or in the archive file that run created.
C13_RelocatedNotDropped ==
    RunEnded =>
        \A i \in 1..Len(start_current.rows) :
            \/ InRows(start_current.rows[i], current_file.rows)
            \/ /\ archived_to # <<>>
               /\ InRows(start_current.rows[i], output_dir[archived_to])

\* a record of the file the run started from is no longer in the file and is
\* in the archive file the run created
C13_Witness ==
    /\ RunEnded
    /\ archived_to # <<>>
    /\ \E i \in 1..Len(start_current.rows) :
          /\ ~InRows(start_current.rows[i], current_file.rows)
          /\ InRows(start_current.rows[i], output_dir[archived_to])

----------------------------------------------------------------------------
(* Properties of one pass of the loop, continued *)

\* the lower-cased links of the file the run started from
KnownAtStart ==
    {str_lower(start_current.rows[k].link) : k \in 1..Len(start_current.rows)}

\* C14: no collected record has a link whose lower-cased form is among the
\* lower-cased links of the file the run started from; a hit with such a link
\* is skipped with neither is_valid_source nor extract_article_content called.
C14_KnownLinksSkipped ==
    HitDone =>
        /\ \A i \in 1..Len(all_articles) :
              str_lower(all_articles[i].link) \notin KnownAtStart
        /\ (PassesDecode(probe) /\ str_lower(decode_url(probe.result)) \in KnownAtStart)
           => (all_articles = <<>> /\ calls = <<"decode_url">>)

\* a hit whose link differs in case only from a link of the file was skipped
C14_Witness ==
    /\ HitDone
    /\ PassesDecode(probe)
    /\ ~InRows(decode_url(probe.result),
               [k \in 1..Len(start_current.rows) |-> start_current.rows[k].link])
    /\ str_lower(decode_url(probe.result)) \in KnownAtStart
    /\ all_articles = <<>>
    /\ calls = <<"decode_url">>

\* C14 over whole runs: no record of all_articles has a link known at the
\* start of the run
C14_CollectedLinksUnknown ==
    \A i \in 1..Len(all_articles) : str_lower(all_articles[i].link) \notin KnownAtStart

----------------------------------------------------------------------------
(* Properties of whole runs, continued *)

\* the links of the collected records that are not older than the cutoff
CollectedCurrentLinks ==
    {all_articles[i].link : i \in {k \in 1..Len(all_articles) : Kept(all_articles[k])}}

\* a hit that becomes a record before a step of the collection still becomes
\* one after it
StillCollected ==
    (pc \in {"hits", "search"} /\ pc' \in {"hits", "search"}
        /\ term_idx <= Len(search_terms) /\ term_idx' <= Len(search_terms)) =>
        \A item \in FeedItems, page \in Pages :
            \A result \in DecoderResults(item.encoded_url) :
                Collected(item, result, page) # <<>> =>
                    /\ Collected(item, result, page)' # <<>>
                    /\ Collected(item, result, page)'[1].link
                           = Collected(item, result, page)[1].link

\* C15: while articles are collected the set of known links is not added to,
\* so a link that is returned again and passes every check is collected
\* again; in the file the run saves each collected link of the current
\* window is there once.
C15_KnownLinksNotAddedTo ==
    /\ [][(pc # "rest" => existing_links' = existing_links) /\ StillCollected]_vars
    /\ []((RunEnded /\ outcome = "saved") =>
             \A l \in CollectedCurrentLinks :
                 Cardinality({k \in 1..Len(current_file.rows) :
                                 current_file.rows[k].link = l}) = 1)

\* two records of one link were collected in the run and the saved file
\* holds that link once
C15_Witness ==
    /\ RunEnded
    /\ outcome = "saved"
    /\ \E i, j \in 1..Len(all_articles) :
          /\ i < j
          /\ all_articles[i].link = all_articles[j].link
          /\ Kept(all_articles[i])
          /\ Kept(all_articles[j])
          /\ Cardinality({k \in 1..Len(current_file.rows) :
                             current_file.rows[k].link = all_articles[i].link}) = 1

\* C16, as stated: within one run the current-window file is read once
\* and written once.
C16_ReadOnceWrittenOnce == reads <= 1 /\ writes <= 1

\* C16, amended: within one run the current-window file is read at most
\* twice, once when the run starts and once when the retention step begins,
\* and written at most once, in the retention step, after every search term
\* has been processed; it is not written while articles are collected.
C16_ReadTwiceWrittenOnce ==
    /\ [](/\ reads <= 2
          /\ writes <= 1
          /\ pc # "rest" => (reads <= 1 /\ writes = 0 /\ current_file = start_current))
    /\ [][current_file' # current_file =>
            /\ pc = "search"
            /\ term_idx > Len(search_terms)
            /\ pc' = "rest"
            /\ writes' = 1]_vars

\* a run read the file when it started, read it again in the retention step
\* and wrote it once
C16_Witness ==
    /\ RunEnded
    /\ outcome = "saved"
    /\ reads = 2
    /\ writes = 1
    /\ current_file # start_current

----------------------------------------------------------------------------
(* Properties of one pass of the loop, continued *)

PassesContent(p) == ~p.page.raised /\ p.page.summary >= 100

\* C17: a hit whose pubDate is missing or is no date, and that passes the
\* decode, known-link, source and content checks, becomes a record whose
\* published_date is the current date.
C17_UnparsableDateIsToday ==
    (/\ HitDone
     /\ probe.item.pub_date \in {<<>>, <<"soon">>}
     /\ PassesKnownLinks(probe)
     /\ PassesSource(probe)
     /\ PassesContent(probe))
    => /\ Len(all_articles) = 1
       /\ all_articles[1].published_date = now \div TicksPerDay
       /\ outcome = "running"

\* a hit whose pubDate is no date became a record dated today, on a day that
\* is not day 0
C17_Witness ==
    /\ HitDone
    /\ probe.item.pub_date = <<"soon">>
    /\ Len(all_articles) = 1
    /\ all_articles[1].published_date = now \div TicksPerDay
    /\ now \div TicksPerDay > 0

----------------------------------------------------------------------------
(* Properties of whole runs, continued *)

\* the existing rows followed by the collected records, as the run merged them
UnionRows == start_current.rows \o all_articles

OlderRows(cutoff) == SelectSeq(UnionRows, LAMBDA r : Midnight(r.published_date) < cutoff)

NewFiles == DOMAIN output_dir \ DOMAIN start_dir

\* C18, as stated: a run creates an archive file exactly when the union of
\* existing and collected records holds a record older than the cutoff, then
\* exactly one, and that file holds all and only the older records of the
\* union, duplicates included.  Stated for the runs in which nothing raised.
C18_ArchiveExactlyWhenOld ==
    (RunEnded /\ outcome \notin {"raised", "crashed"}) =>
        LET old == OlderRows(ended_at - RetentionTicks)
        IN  /\ (old # <<>>) <=> (NewFiles # {})
            /\ Cardinality(NewFiles) <= 1
            /\ \A f \in NewFiles : output_dir[f] = old

\* C18, amended: a run that saves the current-window file creates an archive
\* file exactly when the union holds a record older than the cutoff, then
\* exactly one, holding all and only the older records of the union in merge
\* order, duplicates included; a run that does not save creates at most one
\* file, and none unless its archive write raised.
C18_SavedRunArchivesOld ==
    RunEnded =>
        /\ Cardinality(NewFiles) <= 1
        /\ NewFiles \subseteq {archived_to}
        /\ outcome = "saved" =>
              /\ (OlderRows(cutoff_date) # <<>>) <=> (NewFiles # {})
              /\ \A f \in NewFiles : output_dir[f] = OlderRows(cutoff_date)
        /\ outcome \in {"aborted", "empty", "raised"} => NewFiles = {}
        /\ outcome = "crashed" =>
              \A f \in NewFiles :
                 \E k \in 0..(Len(OlderRows(cutoff_date)) - 1) :
                    output_dir[f] = SubSeq(OlderRows(cutoff_date), 1, k)

\* the archive file a saved run created holds two records with one link
C18_Witness ==
    /\ RunEnded
    /\ outcome = "saved"
    /\ NewFiles = {archived_to}
    /\ \E i, j \in 1..Len(output_dir[archived_to]) :
          /\ i < j
          /\ output_dir[archived_to][i].link = output_dir[archived_to][j].link

\* C19: a run that ends with no record in the file it started from and no
\* collected record writes nothing: the current-window file is neither
\* created nor rewritten and no archive file is created.
C19_EmptyUnionWritesNothing ==
    (RunEnded /\ UnionRows = <<>>) =>
        /\ current_file = start_current
        /\ output_dir = start_dir
        /\ writes = 0
        /\ archived_to = <<>>

\* a run went through its search terms, saw hits, collected nothing, had
\* nothing in the file, and ended in the retention step without writing
C19_Witness ==
    /\ RunEnded
    /\ outcome = "empty"
    /\ hits > 0
    /\ UnionRows = <<>>
    /\ ~current_file.exists

\* the collected records that are older than the cutoff of the run
CollectedOld ==
    {i \in 1..Len(all_articles) : ~Kept(all_articles[i])}

\* C20, as stated: a collected record that is older than the cutoff is in
\* the archive file of the run and not in the current-window file, and its
\* link is not in the link set the next run loads from that file.
C20_ArchivedLinkNotLoaded ==
    (RunEnded /\ outcome = "saved") =>
        \A i \in CollectedOld :
            /\ archived_to # <<>>
            /\ InRows(all_articles[i], output_dir[archived_to])
            /\ ~InRows(all_articles[i], current_file.rows)
            /\ str_lower(all_articles[i].link) \notin get_existing_links(current_file)

\* C20, amended: a collected record that is older than the cutoff is in the
\* archive file of the run and not in the current-window file, and its link
\* is in the link set the next run loads only when the same run collected a
\* record of that link, up to letter case, that is not older than the cutoff.
C20_ArchivedLinkLoadedOnlyWithCurrentTwin ==
    (RunEnded /\ outcome = "saved") =>
        \A i \in CollectedOld :
            /\ archived_to # <<>>
            /\ InRows(all_articles[i], output_dir[archived_to])
            /\ ~InRows(all_articles[i], current_file.rows)
            /\ str_lower(all_articles[i].link) \in get_existing_links(current_file)
               => \E j \in 1..Len(all_articles) :
                     /\ Kept(all_articles[j])
                     /\ str_lower(all_articles[j].link) = str_lower(all_articles[i].link)

\* the second run collected and archived a record whose link the archive
\* file of the first run already held: one link is in two archive files
C20_Witness ==
    /\ RunEnded
    /\ outcome = "saved"
    /\ runs = 2
    /\ archived_to # <<>>
    /\ \E i \in CollectedOld :
          /\ InRows(all_articles[i], output_dir[archived_to])
          /\ str_lower(all_articles[i].link) \notin get_existing_links(current_file)
          /\ \E f \in DOMAIN start_dir :
                \E k \in 1..Len(output_dir[f]) :
                    output_dir[f][k].link = all_articles[i].link

====
